---- MODULE Spec2Model ----
(***************************************************************************)
(* Model of covid.py: get_exponential (the exponential "prediction" that   *)
(* extends a date-indexed dataframe) and the hospi_view loop that calls    *)
(* it on cumulated severity columns.                                       *)
(*                                                                         *)
(* Representation                                                          *)
(*   date string 'YYYY-MM-DD'  -> <<y, m, d>>, compared lexicographically  *)
(*                                (what Python's str comparison does on    *)
(*                                zero-padded ISO dates)                   *)
(*   cell value                -> <<kind, x, y, z>>:                       *)
(*                                NaN, Num(n) or Proj(a, b, t), the        *)
(*                                symbolic value a * exp(b * t)            *)
(*   dataframe                 -> [index: Seq(date), cols: name -> Seq]    *)
(***************************************************************************)
EXTENDS Integers, Sequences, FiniteSets, TLC

VARIABLES dataset, call, ret, hv

vars == <<dataset, call, ret, hv>>

----------------------------------------------------------------------------
(* Bounds of the model *)

MaxShortLen == 3
MaxOver == 1
MaxHorizon == 2
MaxHospLen == 4

(* Program constants *)

DefaultWindow == 28
ViewHorizon == 14

----------------------------------------------------------------------------
(* Cell values *)

NaN == <<0, 0, 0, 0>>
Num(n) == <<1, n, 0, 0>>
Proj(a, b, t) == <<2, a, b, t>>

IsNaN(v) == v[1] = 0

\* float addition / subtraction on cells: NaN is absorbing
AddCell(u, v) == IF IsNaN(u) \/ IsNaN(v) THEN NaN ELSE Num(u[2] + v[2])
SubCell(u, v) == IF IsNaN(u) \/ IsNaN(v) THEN NaN ELSE Num(u[2] - v[2])

----------------------------------------------------------------------------
(* Calendar: pd.date_range parses the last index string to a timestamp,    *)
(* steps by whole days, and strftime('%Y-%m-%d') formats it back.          *)

\* day 0 is January 1st of the year of DATES["new_age"], the earliest date
\* the program names
EpochYear == 2020

IsLeap(y) == (y % 4 = 0 /\ y % 100 # 0) \/ y % 400 = 0

DaysInMonth(y, m) ==
    IF m = 2 THEN (IF IsLeap(y) THEN 29 ELSE 28)
    ELSE IF m \in {4, 6, 9, 11} THEN 30 ELSE 31

RECURSIVE DaysBefore(_, _)
DaysBefore(y, m) ==
    IF y = EpochYear /\ m = 1 THEN 0
    ELSE IF m = 1 THEN DaysBefore(y - 1, 12) + DaysInMonth(y - 1, 12)
    ELSE DaysBefore(y, m - 1) + DaysInMonth(y, m - 1)

\* pd.Timestamp(str): days since EpochYear-01-01
ParseDate(s) == DaysBefore(s[1], s[2]) + s[3] - 1

RECURSIVE FormatFrom(_, _, _)
FormatFrom(y, m, n) ==
    IF n < DaysInMonth(y, m) THEN <<y, m, n + 1>>
    ELSE IF m = 12 THEN FormatFrom(y + 1, 1, n - DaysInMonth(y, m))
    ELSE FormatFrom(y, m + 1, n - DaysInMonth(y, m))

\* Timestamp.strftime('%Y-%m-%d')
FormatDate(n) == FormatFrom(EpochYear, 1, n)

\* Python str <= on ISO date strings
StrLeq(s, t) ==
    \/ s[1] < t[1]
    \/ s[1] = t[1] /\ s[2] < t[2]
    \/ s[1] = t[1] /\ s[2] = t[2] /\ s[3] <= t[3]

StrLt(s, t) == StrLeq(s, t) /\ s # t

\* the falsy default of the start / stop parameters (start=False, stop=False)
False == <<0, 0, 0>>

----------------------------------------------------------------------------
(* Dataframes *)

EmptyFrame == [index |-> <<>>, cols |-> [c \in {} |-> <<>>]]

Columns(df) == DOMAIN df.cols

NRows(df) == Len(df.index)

\* positions (1-based, increasing) of the rows lo..hi selected by a boolean mask
RECURSIVE SelectedIn(_, _, _)
SelectedIn(mask, lo, hi) ==
    IF lo > hi THEN <<>>
    ELSE IF lo = hi THEN (IF mask[lo] THEN <<lo>> ELSE <<>>)
    ELSE LET mid == (lo + hi) \div 2
         IN  SelectedIn(mask, lo, mid) \o SelectedIn(mask, mid + 1, hi)

\* df[mask]: the rows where the mask holds, in index order
RowSubset(df, mask) ==
    LET pos == SelectedIn(mask, 1, NRows(df))
    IN  [index |-> [i \in 1..Len(pos) |-> df.index[pos[i]]],
         cols  |-> [c \in Columns(df) |-> [i \in 1..Len(pos) |-> df.cols[c][pos[i]]]]]

\* number of selected rows strictly before row i
RankIn(mask, i) == Cardinality({j \in 1..(i - 1) : mask[j]})

NaNs(n) == [i \in 1..n |-> NaN]

----------------------------------------------------------------------------
(* get_exponential, statement by statement *)

\* line 59: start = start if start else dataset.index[-28]
\* (index[-28] raises IndexError on fewer than 28 rows)
StartRaises(df, start) == start = False /\ NRows(df) < DefaultWindow

\* variant: index[-27]
ResolveStartShort(df, start) ==
    IF start # False THEN start ELSE df.index[NRows(df) - DefaultWindow + 2]

ResolveStart(df, start) ==
    IF start # False THEN start ELSE df.index[NRows(df) - DefaultWindow + 1]

\* line 60: stop = stop if stop else dataset.index[-1]
StopRaises(df, stop) == stop = False /\ NRows(df) = 0

ResolveStop(df, stop) ==
    IF stop # False THEN stop ELSE df.index[NRows(df)]

\* line 61: (stop >= dataset.index) & (dataset.index >= start)
FitMask(df, start, stop) ==
    [i \in 1..NRows(df) |-> StrLeq(df.index[i], stop) /\ StrLeq(start, df.index[i])]

\* lines 64-65: optimize.curve_fit(f, x, y, p0=(0, 0)) with the default
\* check_finite=True and method 'lm' for two parameters.  The optimizer's
\* numerical result is not computed: on finite data of at least two points it
\* either returns some (a, b) or gives up (RuntimeError); `outcome` is that
\* choice, <<0, 0, 0>> for no convergence and <<1, a, b>> for a result.
\* variant: a single data point is accepted
curve_fit_one_point(y, outcome) ==
    IF \E i \in 1..Len(y) : IsNaN(y[i]) THEN [status |-> "ValueError", a |-> 0, b |-> 0]
    ELSE IF Len(y) = 0 THEN [status |-> "ValueError", a |-> 0, b |-> 0]
    ELSE IF outcome[1] = 0 THEN [status |-> "RuntimeError", a |-> 0, b |-> 0]
    ELSE [status |-> "ok", a |-> outcome[2], b |-> outcome[3]]

curve_fit(y, outcome) ==
    IF \E i \in 1..Len(y) : IsNaN(y[i]) THEN [status |-> "ValueError", a |-> 0, b |-> 0]
    ELSE IF Len(y) = 0 THEN [status |-> "ValueError", a |-> 0, b |-> 0]
    ELSE IF Len(y) < 2 THEN [status |-> "TypeError", a |-> 0, b |-> 0]
    ELSE IF outcome[1] = 0 THEN [status |-> "RuntimeError", a |-> 0, b |-> 0]
    ELSE [status |-> "ok", a |-> outcome[2], b |-> outcome[3]]

\* line 66: dataset.assign(new_col_name=np.nan): a new frame with a column
\* literally named "new_col_name", all NaN (added, or overwritten if present)
assign(df) ==
    [index |-> df.index,
     cols  |-> [c \in Columns(df) \cup {"new_col_name"} |->
                   IF c = "new_col_name" THEN NaNs(NRows(df)) ELSE df.cols[c]]]

\* pd.date_range(first, periods=n): n consecutive days starting at first
date_range(first, periods) ==
    [k \in 1..periods |-> ParseDate(first) + k - 1]

\* variant: periods=horizon without the [1:] slice
index_extension_unsliced(df, horizon) ==
    LET days == date_range(df.index[NRows(df)], horizon)
    IN  [k \in 1..Len(days) |-> FormatDate(days[k])]

\* line 67: pd.date_range(dataset.index[-1], periods=horizon+1)[1:].strftime(..)
index_extension(df, horizon) ==
    LET days == Tail(date_range(df.index[NRows(df)], horizon + 1))
    IN  [k \in 1..Len(days) |-> FormatDate(days[k])]

\* lines 68-69: dataset.append(pd.DataFrame(index=ext, columns=dataset.keys()))
append(df, ext) ==
    [index |-> df.index \o ext,
     cols  |-> [c \in Columns(df) |-> df.cols[c] \o NaNs(Len(ext))]]

\* variant: dataset.index > start
EvalMaskStrict(df, start) == [i \in 1..NRows(df) |-> StrLt(start, df.index[i])]

\* lines 70-71: the row mask dataset.index >= start
EvalMask(df, start) == [i \in 1..NRows(df) |-> StrLeq(start, df.index[i])]

\* variant: offsets counted from the first row of the frame
EvalOffsetFromFirstRow(df, mask, i) == i - 1

\* line 70: x_e = range(len(dataset.loc[mask])): offset of row i among the
\* masked rows
EvalOffset(df, mask, i) == RankIn(mask, i)

\* line 71: dataset.loc[mask, new_col_name] = a * np.exp(b * x_e)
\* (.loc creates the column, NaN outside the mask, when it does not exist)
loc_set(df, mask, new_col_name, a, b) ==
    [index |-> df.index,
     cols  |-> [c \in Columns(df) \cup {new_col_name} |->
                   IF c # new_col_name THEN df.cols[c]
                   ELSE [i \in 1..NRows(df) |->
                            IF mask[i] THEN Proj(a, b, EvalOffset(df, mask, i))
                            ELSE IF c \in Columns(df) THEN df.cols[c][i]
                            ELSE NaN]]]

\* the result of a call that raised `status` with local frame `work`; start,
\* stop and fitIndex record the resolved window and the index of the fit subset
Raised(status, df, work) ==
    [status |-> status, returned |-> FALSE, out |-> EmptyFrame, work |-> work,
     caller |-> df, input |-> df, start |-> False, stop |-> False,
     fitIndex |-> <<>>, a |-> 0, b |-> 0]

\* variant: the assign of line 66 done before the fit
WorkAssignedBeforeFit(df) == assign(df)

\* the local `dataset` while lines 59-65 run: the frame passed in (the first
\* rebinding is on line 66)
WorkBeforeFit(df) == df

\* lines 66-71 on the frame `df`
Extend(df, new_col_name, start, horizon, a, b) ==
    LET ext == append(assign(df), index_extension(df, horizon))
    IN  loc_set(ext, EvalMask(ext, start), new_col_name, a, b)

\* lines 59-72
get_exponential(df, col_name, new_col_name, start, stop, horizon, outcome) ==
    IF StartRaises(df, start) THEN Raised("IndexError", df, WorkBeforeFit(df))
    ELSE IF StopRaises(df, stop) THEN Raised("IndexError", df, WorkBeforeFit(df))
    ELSE
      LET s0 == ResolveStart(df, start)
          s1 == ResolveStop(df, stop)
          subset == RowSubset(df, FitMask(df, s0, s1))
          window(r) == [r EXCEPT !.start = s0, !.stop = s1, !.fitIndex = subset.index]
      IN  IF col_name \notin Columns(df)
          THEN window(Raised("KeyError", df, WorkBeforeFit(df)))
          ELSE
            LET f == curve_fit(subset.cols[col_name], outcome)
            IN  IF f.status # "ok" THEN window(Raised(f.status, df, WorkBeforeFit(df)))
                ELSE
                  LET res == Extend(df, new_col_name, s0, horizon, f.a, f.b)
                  IN  [status |-> "ok", returned |-> TRUE, out |-> res,
                       work |-> res, caller |-> df, input |-> df,
                       start |-> s0, stop |-> s1,
                       fitIndex |-> subset.index, a |-> f.a, b |-> f.b]

----------------------------------------------------------------------------
(* Inputs *)

\* a daily frame of n rows starting at day `first`; `gappy` leaves every
\* third value missing
DailyFrame(first, n, colset, gappy) ==
    [index |-> [i \in 1..n |-> FormatDate(first + i - 1)],
     cols  |-> [c \in colset |->
                  [i \in 1..n |->
                     IF gappy /\ i % 3 = 0 THEN NaN
                     ELSE IF c = "cases" THEN Num(i) ELSE Num(100 + i)]]]

Lens == (0..MaxShortLen) \cup ((DefaultWindow - 1)..(DefaultWindow + MaxOver))

FirstDays == {ParseDate(<<2021, 8, 29>>), ParseDate(<<2021, 8, 30>>)}

ColSets == {{"cases"}, {"cases", "cases_exp"}, {"cases", "new_col_name"}}

InputFrames ==
    {DailyFrame(d, n, cs, g) : d \in FirstDays, n \in Lens, cs \in ColSets, g \in BOOLEAN}

ColArgs == {"cases", "deaths"}
NewArgs == {"cases_exp", "new_col_name"}
StartArgs == {False, <<2021, 8, 28>>, <<2021, 8, 31>>, <<2021, 9, 2>>}
StopArgs == {False, <<2021, 8, 31>>, <<2021, 9, 1>>, <<2021, 12, 31>>}
FitOutcomes == {<<0, 0, 0>>, <<1, 1, 0>>, <<1, 2, 1>>}

NoCall == [col |-> "", new |-> "", start |-> False, stop |-> False, horizon |-> 0, n |-> 0]
NoRet == Raised("none", EmptyFrame, EmptyFrame)
HvIdle == [pc |-> "idle", k |-> 0, subset |-> EmptyFrame]

Init ==
    /\ dataset \in InputFrames
    /\ call = NoCall
    /\ ret = NoRet
    /\ hv = HvIdle

\* one call get_exponential(dataset, col, new, start, stop, horizon); a
\* behaviour follows a single call (the function keeps no state between calls)
CallGetExponential ==
    /\ call.n = 0
    /\ hv.pc = "idle"
    /\ \E col \in ColArgs, new \in NewArgs, start \in StartArgs, stop \in StopArgs,
       horizon \in 0..MaxHorizon, outcome \in FitOutcomes :
         LET r == get_exponential(dataset, col, new, start, stop, horizon, outcome)
         IN /\ call' = [col |-> col, new |-> new, start |-> start, stop |-> stop,
                        horizon |-> horizon, n |-> 1]
            /\ ret' = r
            /\ dataset' = r.caller
            /\ hv' = hv

Next == CallGetExponential

Spec == Init /\ [][Next]_vars

----------------------------------------------------------------------------
(* hospi_view: the loop that cumulates the severity columns and calls        *)
(* get_exponential on each partial sum                                       *)

\* DATES (lines 219-222)
new_age == <<2020, 9, 1>>
wave3 == <<2021, 8, 30>>

\* the "n" entries of to_draw (lines 132-138), in loop order
to_draw == <<"stav_tezky", "stav_stredni", "stav_lehky", "stav_bez_priznaku">>

\* df[name] = values
SetCol(df, name, values) ==
    [index |-> df.index,
     cols  |-> [c \in Columns(df) \cup {name} |-> IF c = name THEN values ELSE df.cols[c]]]

\* line 140: dataframe[dataframe.index > DATES["new_age"]].copy()
AfterNewAge(df) == RowSubset(df, [i \in 1..NRows(df) |-> StrLt(new_age, df.index[i])])

\* line 141: subset["sum td next"] = subset["pocet_hosp"] - subset["pocet_hosp"]
ZeroSum(df) ==
    SetCol(df, "sum td next",
           [i \in 1..NRows(df) |-> SubCell(df.cols["pocet_hosp"][i], df.cols["pocet_hosp"][i])])

\* variant: = instead of += on line 144
AccumulateAssign(df, n) ==
    SetCol(SetCol(df, "sum td prev", df.cols["sum td next"]),
           "sum td next", df.cols[n])

\* lines 143-144: subset["sum td prev"] = subset["sum td next"];
\*                subset["sum td next"] += subset[n]
Accumulate(df, n) ==
    SetCol(SetCol(df, "sum td prev", df.cols["sum td next"]),
           "sum td next",
           [i \in 1..NRows(df) |-> AddCell(df.cols["sum td next"][i], df.cols[n][i])])

\* line 145: "{}_exp".format(n)
ExpName(n) == n \o "_exp"

\* a daily hospital frame; hole = 1 leaves pocet_hosp missing on the first
\* row, hole = 2 leaves stav_stredni missing on the last row
HospFrame(first, n, hole) ==
    [index |-> [i \in 1..n |-> FormatDate(first + i - 1)],
     cols  |-> [c \in {"pocet_hosp"} \cup {to_draw[j] : j \in 1..Len(to_draw)} |->
                  [i \in 1..n |->
                     IF c = "pocet_hosp"
                     THEN (IF hole = 1 /\ i = 1 THEN NaN ELSE Num(10 + 4 * i))
                     ELSE IF hole = 2 /\ i = n /\ c = "stav_stredni" THEN NaN
                     ELSE Num(i + (CHOOSE j \in 1..Len(to_draw) : to_draw[j] = c))]]]

\* rows from the day before new_age up to the day after wave3
HistoryLen == ParseDate(wave3) + 1 - (ParseDate(new_age) - 1) + 1

HospFrames ==
    {HospFrame(d, n, h) : d \in FirstDays, n \in 0..MaxHospLen, h \in 0..2}
        \cup {HospFrame(ParseDate(new_age) - 1, HistoryLen, 0)}

InitHospi ==
    /\ dataset \in HospFrames
    /\ call = NoCall
    /\ ret = NoRet
    /\ hv = [pc |-> "start", k |-> 0, subset |-> EmptyFrame]

\* lines 140-141
HospiSubset ==
    /\ hv.pc = "start"
    /\ hv' = [pc |-> "loop", k |-> 0, subset |-> ZeroSum(AfterNewAge(dataset))]
    /\ UNCHANGED <<dataset, call, ret>>

\* lines 142-148: one pass of the loop body; an exception of get_exponential
\* leaves the view
HospiIter ==
    /\ hv.pc = "loop"
    /\ hv.k < Len(to_draw)
    /\ \E outcome \in FitOutcomes :
         LET n == to_draw[hv.k + 1]
             sub == Accumulate(hv.subset, n)
             r == get_exponential(sub, "sum td next", ExpName(n), wave3, False,
                                  ViewHorizon, outcome)
         IN /\ call' = [col |-> "sum td next", new |-> ExpName(n), start |-> wave3,
                        stop |-> False, horizon |-> ViewHorizon, n |-> hv.k + 1]
            /\ ret' = r
            /\ hv' = [pc |-> IF r.status = "ok" THEN "loop" ELSE "raised",
                      k |-> hv.k + 1, subset |-> r.caller]
            /\ dataset' = dataset

\* lines 149-158 and the handle_fig wrapper: the figure is finished
HospiDraw ==
    /\ hv.pc = "loop"
    /\ hv.k = Len(to_draw)
    /\ hv' = [hv EXCEPT !.pc = "done"]
    /\ UNCHANGED <<dataset, call, ret>>

NextHospi == HospiSubset \/ HospiIter \/ HospiDraw

SpecHospi == InitHospi /\ [][NextHospi]_vars

----------------------------------------------------------------------------
(* Properties of get_exponential (specification Spec) *)

Called == call.n = 1
Ok == Called /\ ret.status = "ok"

InLen == NRows(ret.input)
OutLen == NRows(ret.out)
LastDate(df) == df.index[NRows(df)]

\* the calendar day after a date string, by the calendar's own rules
NextDay(s) ==
    IF s[3] < DaysInMonth(s[1], s[2]) THEN <<s[1], s[2], s[3] + 1>>
    ELSE IF s[2] < 12 THEN <<s[1], s[2] + 1, 1>>
    ELSE <<s[1] + 1, 1, 1>>

\* number of rows of the input whose date lies in [s, t]
RowsIn(df, s, t) ==
    Cardinality({i \in 1..NRows(df) : StrLeq(s, df.index[i]) /\ StrLeq(df.index[i], t)})

\* C1: after a successful call on a dataset that has no column of the name
\* passed as new_col_name, the new column is non-missing on a row of the
\* output (original or appended) exactly when the row's date is >= start.
C1_DefinedExactlyFromStart ==
    (Ok /\ call.new \notin Columns(ret.input)) =>
        \A i \in 1..OutLen :
            (~IsNaN(ret.out.cols[call.new][i])) <=> StrLeq(ret.start, ret.out.index[i])

\* C1 witness: a successful call on a fresh column with an original row before
\* start (missing) and an appended row (defined)
C1_Witness ==
    /\ Ok /\ call.new \notin Columns(ret.input)
    /\ call.horizon >= 1
    /\ StrLt(ret.out.index[1], ret.start)
    /\ IsNaN(ret.out.cols[call.new][1])
    /\ ~IsNaN(ret.out.cols[call.new][OutLen])

\* C2: the output index is the input index followed by exactly `horizon`
\* consecutive calendar days starting the day after the dataset's last date.
C2_IndexExtendedByHorizonDays ==
    Ok =>
        /\ OutLen = InLen + call.horizon
        /\ \A i \in 1..InLen : ret.out.index[i] = ret.input.index[i]
        /\ \A i \in (InLen + 1)..OutLen : ret.out.index[i] = NextDay(ret.out.index[i - 1])
        /\ \A i, j \in 1..OutLen : i # j => ret.out.index[i] # ret.out.index[j]
        /\ (call.horizon = 0 => ret.out.index = ret.input.index)

\* C2 witness: two days appended across a month end, after a stop that is not
\* the dataset's last date
C2_Witness ==
    /\ Ok /\ call.horizon = 2
    /\ ret.stop # LastDate(ret.input)
    /\ \E i \in (InLen + 1)..OutLen : ret.out.index[i][3] = 1

\* C3: every column of the input other than the new column keeps its values
\* on the original dates and is missing on the appended dates, and the
\* caller's dataset is unchanged.
C3_OtherColumnsKept ==
    Ok =>
        /\ \A c \in Columns(ret.input) \ {call.new} :
              /\ c \in Columns(ret.out)
              /\ \A i \in 1..InLen : ret.out.cols[c][i] = ret.input.cols[c][i]
              /\ \A i \in (InLen + 1)..OutLen : IsNaN(ret.out.cols[c][i])
        /\ dataset = ret.input

\* C4: a successful call adds exactly one column, the one named by the caller.
C4_OneColumnAdded ==
    Ok => Columns(ret.out) = Columns(ret.input) \cup {call.new}

\* C5 (as stated): with start and stop omitted the fit window is
\* [last date - 28 calendar days, last date].
C5_DefaultStart28DaysBefore ==
    (Called /\ call.start = False /\ call.stop = False /\ ret.status # "IndexError") =>
        /\ ret.stop = LastDate(ret.input)
        /\ ret.start = FormatDate(ParseDate(LastDate(ret.input)) - DefaultWindow)

\* C5 (amended): with start and stop omitted, stop is the dataset's last date
\* and start is the 28th-from-last index entry, 27 calendar days before the
\* last date on a daily index, so the fit subset is the last 28 rows; a
\* dataset of fewer than 28 rows raises IndexError.
C5_DefaultWindowLast28Rows ==
    (Called /\ call.start = False /\ call.stop = False) =>
        IF InLen < DefaultWindow THEN ret.status = "IndexError" /\ ~ret.returned
        ELSE /\ ret.status # "IndexError"
             /\ ret.stop = LastDate(ret.input)
             /\ ret.start = FormatDate(ParseDate(LastDate(ret.input)) - (DefaultWindow - 1))
             /\ ret.start = ret.input.index[InLen - (DefaultWindow - 1)]
             /\ Len(ret.fitIndex) = DefaultWindow
             /\ \A p \in 1..DefaultWindow :
                    ret.fitIndex[p] = ret.input.index[InLen - DefaultWindow + p]

\* C5 witness: defaults used on a dataset longer than 28 rows, fit succeeded
C5_Witness ==
    /\ Ok /\ call.start = False /\ call.stop = False
    /\ InLen > DefaultWindow

\* the window given by the caller is bad in the sense of the claim
C6_BadWindow ==
    \/ call.start # False /\ call.stop # False /\ StrLt(call.stop, call.start)
    \/ call.stop # False /\ \A i \in 1..InLen : ret.input.index[i] # call.stop
    \/ ret.status # "IndexError" /\ RowsIn(ret.input, ret.start, ret.stop) < 2

\* C6 (as stated): the call fails when start > stop, when stop is not a date of
\* the index, or when the window holds fewer than 2 rows.
C6_BadWindowFails ==
    (Called /\ C6_BadWindow) => ~ret.returned /\ ret.status # "ok"

\* C6 (amended): the call fails, returning nothing, whenever fewer than 2 rows
\* have start <= date <= stop (which covers every start > stop): with KeyError
\* if the column is absent too, else with curve_fit's ValueError / TypeError.
C6_SmallWindowFails ==
    /\ (Called /\ ret.status # "IndexError"
          /\ RowsIn(ret.input, ret.start, ret.stop) < 2) =>
            /\ ~ret.returned
            /\ IF call.col \in Columns(ret.input)
               THEN ret.status \in {"ValueError", "TypeError"}
               ELSE ret.status = "KeyError"
    /\ (Called /\ ret.status # "IndexError" /\ StrLt(ret.stop, ret.start)) =>
            RowsIn(ret.input, ret.start, ret.stop) = 0 /\ ~ret.returned

\* C6 witness: exactly one row in the window of an existing, finite column
C6_Witness ==
    /\ Called /\ ret.status = "TypeError"
    /\ call.col \in Columns(ret.input)
    /\ RowsIn(ret.input, ret.start, ret.stop) = 1

\* C7: a failing call returns nothing, raised before any row or column was
\* added to the working frame, and leaves the caller's dataset unchanged.
C7_FailureAllOrNothing ==
    (Called /\ ret.status # "ok") =>
        /\ ~ret.returned
        /\ ret.out = EmptyFrame
        /\ ret.work = ret.input
        /\ dataset = ret.input

\* C7 witness: the fit gave up on a window of at least two finite values,
\* with a positive horizon requested
C7_Witness ==
    /\ Called /\ ret.status = "RuntimeError"
    /\ call.horizon >= 1
    /\ InLen >= 2

\* C8: when the input already has the column, no old value survives: the
\* column is missing before start and holds the projection from start on.
C8_ExistingColumnOverwritten ==
    (Ok /\ call.new \in Columns(ret.input)) =>
        \A i \in 1..OutLen :
            IF StrLeq(ret.start, ret.out.index[i])
            THEN ret.out.cols[call.new][i][1] = 2
            ELSE IsNaN(ret.out.cols[call.new][i])

\* C9: the first output row with date >= start has offset 0, each following
\* row one more, and every date of the fit subset is evaluated at its 0-based
\* position in the fit subset.
C9_OffsetsAligned ==
    Ok =>
        /\ \A i \in 1..OutLen :
              StrLeq(ret.start, ret.out.index[i]) =>
                  /\ ret.out.cols[call.new][i][1] = 2
                  /\ ret.out.cols[call.new][i][2] = ret.a
                  /\ ret.out.cols[call.new][i][3] = ret.b
                  /\ IF i = 1 \/ ~StrLeq(ret.start, ret.out.index[i - 1])
                     THEN ret.out.cols[call.new][i][4] = 0
                     ELSE ret.out.cols[call.new][i][4] = ret.out.cols[call.new][i - 1][4] + 1
        /\ \A p \in 1..Len(ret.fitIndex) :
              \E i \in 1..OutLen :
                  /\ ret.out.index[i] = ret.fitIndex[p]
                  /\ ret.out.cols[call.new][i] = Proj(ret.a, ret.b, p - 1)

\* C9 witness: the window starts after the dataset's first row and stops
\* before its last one
C9_Witness ==
    /\ Ok
    /\ StrLt(ret.input.index[1], ret.start)
    /\ StrLt(ret.stop, LastDate(ret.input))
    /\ Len(ret.fitIndex) >= 2

\* C9 witness of the other case: start is earlier than every date of the index
C9_StartOutsideIndex ==
    /\ Ok
    /\ StrLt(ret.start, ret.input.index[1])
    /\ call.horizon >= 1

----------------------------------------------------------------------------
(* Properties of hospi_view (specification SpecHospi) *)

RECURSIVE SevSum(_, _, _)
SevSum(df, k, i) ==
    IF k = 0 THEN 0 ELSE SevSum(df, k - 1, i) + df.cols[to_draw[k]][i][2]

AllDefined(df, i) ==
    /\ ~IsNaN(df.cols["pocet_hosp"][i])
    /\ \A j \in 1..Len(to_draw) : ~IsNaN(df.cols[to_draw[j]][i])

\* C10: at the k-th get_exponential call of hospi_view, on every date where
\* pocet_hosp and the severity columns are defined, 'sum td next' is the sum
\* of the first k severity columns and 'sum td prev' the sum of the first
\* k - 1; the call is made on the un-extended subset, so a successful result
\* has len(subset) + 14 rows.
C10_HospiCumulativeSums ==
    (hv.pc \in {"loop", "raised", "done"} /\ hv.k >= 1) =>
        /\ call.n = hv.k
        /\ \A i \in 1..NRows(hv.subset) :
              AllDefined(hv.subset, i) =>
                  /\ hv.subset.cols["sum td next"][i] = Num(SevSum(hv.subset, hv.k, i))
                  /\ hv.subset.cols["sum td prev"][i] = Num(SevSum(hv.subset, hv.k - 1, i))
        /\ ret.input = hv.subset
        /\ hv.subset.index = AfterNewAge(dataset).index
        /\ (ret.status = "ok" => NRows(ret.out) = NRows(hv.subset) + ViewHorizon)

\* C10 witness: the fourth call succeeded on a subset that dropped rows of
\* the dataframe
C10_Witness ==
    /\ hv.pc = "loop" /\ hv.k = Len(to_draw)
    /\ ret.status = "ok"
    /\ NRows(hv.subset) >= 2
    /\ NRows(hv.subset) < NRows(dataset)
    /\ \A i \in 1..NRows(hv.subset) : AllDefined(hv.subset, i)

====
